---- MODULE Spec2Model ----
(***************************************************************************)
(* Model of the two CUDA driver-API vector-addition demos,                 *)
(* src/driver_api.cpp and src/unified_memory.cpp.                          *)
(*                                                                         *)
(* The host program is one thread walking through its call sites (pc).     *)
(* Every driver call returns a CUresult chosen by the environment.  The    *)
(* launched kernel is a set of GPU threads that run concurrently with the  *)
(* host; each pending thread performs one write to the output buffer.      *)
(***************************************************************************)
EXTENDS Integers, Sequences, FiniteSets

\* ---------------------------------------------------------------- bounds
\* Largest value the environment returns for CU_DEVICE_ATTRIBUTE_MAX_BLOCK_DIM_X.
MaxBlockDimX == 3
\* Largest device count cuDeviceGetCount reports.
MaxDevices == 1
\* Input ranges of the grid formula when it is examined on its own (GridSpec).
MaxGridN == 12
MaxGridBlock == 12

\* ------------------------------------------------------- program constants
\* #define N 10;
N == 10
\* exit(-1) in __checkCudaErrors and initCUDA.
ExitFailure == -1
\* return 0 at the end of main.
MainReturn_failure == ExitFailure
MainReturn == 0

CUDA_SUCCESS == "CUDA_SUCCESS"
CUresult == {CUDA_SUCCESS, "CUDA_ERROR"}

DRIVER == "driver_api"
UNIFIED == "unified_memory"
Variants == {DRIVER, UNIFIED}

Index == 0 .. (N - 1)
Buffers == {"a", "b", "c"}
\* exitCode while the process runs: a value no exit path produces.
NoExit == ExitFailure - 1

\* What memory nobody has written yet may hold: every cell holds the same
\* leftover value.  0 never equals a sum a[i]+b[i]; 10 equals it at i = 0, 1.
GarbageFills == {0, 10}
\* The images kernel.ptx (an external file) may contain: the kernel the
\* repository ships, or one that computes something else.
KernelImages == {"Sum", "Other"}

VARIABLES
    variant,        \* which of the two programs runs
    pc,             \* the host thread's position (a call site, or "exited")
    n,              \* main's local n
    exitCode,       \* the process exit status, NoExit while running
    stderr,         \* messages written to stderr, in order
    nReports,       \* number of "* Error at array position" lines on stdout
    verdict,        \* the final stdout line: "none", "complete", "incorrect"
    failed,         \* call sites whose driver call returned a non-success code
    err,            \* initCUDA's local err
    deviceCount,    \* initCUDA's local deviceCount
    hasUVM,         \* initCUDA's local hasUVM (unified_memory only)
    context,        \* the context handle: "none", "created", "destroyed"
    ctxCreates,     \* successful cuCtxCreate calls
    ctxDestroys,    \* cuCtxDestroy calls
    badDestroy,     \* cuCtxDestroy was called on a handle that is not a live context
    kernelImage,    \* what cuModuleLoad/cuModuleGetFunction bound `function` to
    alloc,          \* per buffer: "unalloc", "alloc", "freed"
    frees,          \* per buffer: number of successful free calls
    badUse,         \* a buffer was used while not allocated
    fill,           \* the leftover value of unwritten memory
    a, b, c,        \* driver_api: main's host arrays
    d_a, d_b, d_c,  \* the device (driver_api) or pinned host (unified) buffers
    block_size,     \* runKernel's local block_size (0 outside runKernel)
    gridDimX,       \* GridSpec only: the value of the launch's grid expression
    pending,        \* GPU threads of the launched kernel that have not run yet
    launches,       \* successful cuLaunchKernel calls
    racyRead,       \* the host read d_c while the kernel had not completed
    correct,        \* unified_memory: main's local `correct`
    correctFirst,   \* value of `correct` after the first verification loop
    steps           \* the procedure steps begun so far, in order

envVars == <<variant, n, fill>>
outVars == <<nReports, verdict>>
initLocals == <<err, deviceCount, hasUVM>>
ctxVars == <<context, ctxCreates, ctxDestroys, badDestroy, kernelImage>>
allocVars == <<alloc, frees>>
hostArrs == <<a, b, c>>
devArrs == <<d_a, d_b, d_c>>
kernVars == <<block_size, gridDimX, pending, launches>>
chkVars == <<correct, correctFirst>>
vars == <<envVars, outVars, initLocals, ctxVars, allocVars, hostArrs, devArrs,
          kernVars, chkVars, pc, exitCode, stderr, failed, badUse, racyRead, steps>>

\* ----------------------------------------------------------- arithmetic
\* C's int division for a positive divisor: truncation toward zero.
CDiv(x, y) == IF x >= 0 THEN x \div y ELSE -((-x) \div y)

GridDim_floor(nn, bs) == CDiv(nn, bs)
GridDim_plusOne(nn, bs) == CDiv(nn + bs, bs)
\* (n+block_size-1)/block_size, on ints.  Every sum the model forms stays far
\* inside the 32-bit range, so no wrap-around is modelled.
GridDim(nn, bs) == CDiv(nn + bs - 1, bs)

\* The threads a launch of g blocks of bs threads creates that pass the
\* kernel's `idx < n` test.
LaunchedThreads(g, bs, nn) == {i \in Index : i < g * bs /\ i < nn}

\* a[i] = n - i;  b[i] = i * i;
InputA(nn) == [i \in Index |-> nn - i]
InputB(nn) == [i \in Index |-> i * i]
Unwritten(f) == [i \in Index |-> f]

\* c[i] != a[i] + b[i]
Mismatch_never(out, x, y, i) == FALSE
Mismatch(out, x, y, i) == out[i] # x[i] + y[i]
Mismatches(out, x, y) == {i \in Index : Mismatch(out, x, y, i)}

\* What one GPU thread of the loaded image stores in c[i].
KernelWrite(image, x, y, i) ==
    IF image = "Sum" THEN x[i] + y[i] ELSE x[i] - y[i]

\* ------------------------------------------------------------ call sites
\* The host's call sites in program order: initCUDA's body, then the rest
\* of main.
Program_launchBeforeAlloc(v) ==
    <<"main", "cuInit", "cuDeviceGetCount", "cuDeviceGet", "cuDeviceGetName",
      "attrMajor", "attrMinor", "cuDeviceTotalMem">>
    \o (IF v = UNIFIED THEN <<"attrUVA">> ELSE <<>>)
    \o <<"cuCtxCreate", "cuModuleLoad", "cuModuleGetFunction">>
    \o <<"attrBlockDim", "cuLaunchKernel">>
    \o <<"alloc1", "alloc2", "alloc3">>
    \o (IF v = UNIFIED THEN <<"fill">> ELSE <<"htod_a", "htod_b">>)
    \o (IF v = UNIFIED THEN <<"cuStreamSynchronize", "verify1", "verify2">>
                       ELSE <<"cuMemcpyDtoH", "verify1">>)
    \o <<"verdict", "free1", "free2", "free3", "finalizeCUDA">>

Program(v) ==
    <<"main", "cuInit", "cuDeviceGetCount", "cuDeviceGet", "cuDeviceGetName",
      "attrMajor", "attrMinor", "cuDeviceTotalMem">>
    \o (IF v = UNIFIED THEN <<"attrUVA">> ELSE <<>>)
    \o <<"cuCtxCreate", "cuModuleLoad", "cuModuleGetFunction">>
    \o <<"alloc1", "alloc2", "alloc3">>
    \o (IF v = UNIFIED THEN <<"fill">> ELSE <<"htod_a", "htod_b">>)
    \o <<"attrBlockDim", "cuLaunchKernel">>
    \o (IF v = UNIFIED THEN <<"cuStreamSynchronize", "verify1", "verify2">>
                       ELSE <<"cuMemcpyDtoH", "verify1">>)
    \o <<"verdict", "free1", "free2", "free3", "finalizeCUDA">>

\* The call site that follows site l when l falls through.
Succ(l) ==
    LET p == Program(variant)
        k == CHOOSE j \in 1 .. Len(p) : p[j] = l
    IN  IF k < Len(p) THEN p[k + 1] ELSE "exited"

\* setupDeviceMemory(&d_a, &d_b, &d_c, n): the buffer of the k-th allocation.
SetupArgs == <<"a", "b", "c">>
\* releaseDeviceMemory(d_a, d_b, d_c): the buffer of the k-th free.
ReleaseArgs_twice == <<"a", "a", "c">>
ReleaseArgs == <<"a", "b", "c">>

\* The steps of the procedure, in the order the programs take them.
StepOrder == <<"init", "alloc", "populate", "launch", "inspect", "release", "destroy">>
Begin(s) == steps' = Append(steps, s)

\* ------------------------------------------------------------- helpers
Exited == pc = "exited"

\* exit(code)
Exit(code) == pc' = "exited" /\ exitCode' = code

Record(site, r) ==
    failed' = IF r = CUDA_SUCCESS THEN failed ELSE failed \cup {site}

\* checkCudaErrors(call): on a non-success code print code, file and line to
\* stderr and exit(-1); otherwise go on to the next call site.
__checkCudaErrors(r, site) ==
    /\ Record(site, r)
    /\ IF r # CUDA_SUCCESS
       THEN /\ stderr' = Append(stderr, [kind |-> "api", code |-> r, site |-> site])
            /\ Exit(ExitFailure)
       ELSE /\ pc' = Succ(site)
            /\ UNCHANGED <<stderr, exitCode>>

\* Every use of a buffer (copy, launch argument, host access, free) while it
\* is not allocated is remembered.
Use(bufs) == badUse' = (badUse \/ \E x \in bufs : alloc[x] # "alloc")

\* cuCtxDestroy(context); its return code is dropped.
CtxDestroy(site, r) ==
    /\ Record(site, r)
    /\ ctxDestroys' = ctxDestroys + 1
    /\ badDestroy' = (badDestroy \/ context # "created")
    /\ context' = IF context = "created" /\ r = CUDA_SUCCESS THEN "destroyed" ELSE context
    /\ UNCHANGED <<ctxCreates, kernelImage>>

\* ---------------------------------------------------------------- Init
InitCommon ==
    /\ exitCode = NoExit
    /\ stderr = <<>>
    /\ nReports = 0
    /\ verdict = "none"
    /\ failed = {}
    /\ err = CUDA_SUCCESS
    /\ deviceCount = 0
    /\ hasUVM = 0
    /\ context = "none"
    /\ ctxCreates = 0
    /\ ctxDestroys = 0
    /\ badDestroy = FALSE
    /\ kernelImage = "none"
    /\ alloc = [x \in Buffers |-> "unalloc"]
    /\ frees = [x \in Buffers |-> 0]
    /\ badUse = FALSE
    /\ fill \in GarbageFills
    /\ a = Unwritten(fill) /\ b = Unwritten(fill) /\ c = Unwritten(fill)
    /\ d_a = Unwritten(fill) /\ d_b = Unwritten(fill) /\ d_c = Unwritten(fill)
    /\ gridDimX = 0
    /\ pending = {}
    /\ launches = 0
    /\ racyRead = FALSE
    /\ correct = TRUE
    /\ correctFirst = TRUE
    /\ steps = <<>>

Init ==
    /\ variant \in Variants
    /\ pc = "main"
    /\ n = N
    /\ block_size = 0
    /\ InitCommon

\* ------------------------------------------------------------------ main
\* main, lines up to the call of initCUDA: driver_api fills its host arrays
\* a and b before anything else; unified_memory only sets n.
MainEntry ==
    /\ pc = "main"
    /\ IF variant = DRIVER
       THEN a' = InputA(n) /\ b' = InputB(n)
       ELSE UNCHANGED <<a, b>>
    /\ pc' = Succ("main")
    /\ UNCHANGED <<envVars, outVars, initLocals, ctxVars, allocVars, c, devArrs,
                   kernVars, chkVars, exitCode, stderr, failed, badUse, racyRead, steps>>

\* -------------------------------------------------------------- initCUDA
\* CUresult err = cuInit(0);   (not checked)
CuInit ==
    /\ pc = "cuInit"
    /\ \E r \in CUresult : err' = r /\ Record("cuInit", r)
    /\ pc' = Succ("cuInit")
    /\ Begin("init")
    /\ UNCHANGED <<envVars, outVars, deviceCount, hasUVM, ctxVars, allocVars, hostArrs,
                   devArrs, kernVars, chkVars, exitCode, stderr, badUse, racyRead>>

\* if (err == CUDA_SUCCESS) checkCudaErrors(cuDeviceGetCount(&deviceCount));
\* if (deviceCount == 0) { fprintf(stderr, ...); exit(-1); }
CuDeviceGetCount ==
    /\ pc = "cuDeviceGetCount"
    /\ \/ /\ err # CUDA_SUCCESS
          /\ stderr' = Append(stderr, [kind |-> "nodevice"])
          /\ Exit(ExitFailure)
          /\ UNCHANGED <<deviceCount, failed>>
       \/ /\ err = CUDA_SUCCESS
          /\ __checkCudaErrors("CUDA_ERROR", "cuDeviceGetCount")
          /\ UNCHANGED deviceCount
       \/ /\ err = CUDA_SUCCESS
          /\ \E cnt \in 0 .. MaxDevices :
                /\ deviceCount' = cnt
                /\ IF cnt = 0
                   THEN /\ stderr' = Append(stderr, [kind |-> "nodevice"])
                        /\ Exit(ExitFailure)
                   ELSE /\ pc' = Succ("cuDeviceGetCount")
                        /\ UNCHANGED <<stderr, exitCode>>
          /\ UNCHANGED failed
    /\ UNCHANGED <<envVars, outVars, err, hasUVM, ctxVars, allocVars, hostArrs, devArrs,
                   kernVars, chkVars, badUse, racyRead, steps>>

\* A checked call of initCUDA with no effect the program uses afterwards:
\* cuDeviceGet, the two compute-capability queries, cuDeviceTotalMem.
CheckedQuery(site) ==
    /\ pc = site
    /\ \E r \in CUresult : __checkCudaErrors(r, site)
    /\ UNCHANGED <<envVars, outVars, initLocals, ctxVars, allocVars, hostArrs, devArrs,
                   kernVars, chkVars, badUse, racyRead, steps>>

\* cuDeviceGetName(name, 100, device);   (not checked)
CuDeviceGetName ==
    /\ pc = "cuDeviceGetName"
    /\ \E r \in CUresult : Record("cuDeviceGetName", r)
    /\ pc' = Succ("cuDeviceGetName")
    /\ UNCHANGED <<envVars, outVars, initLocals, ctxVars, allocVars, hostArrs, devArrs,
                   kernVars, chkVars, exitCode, stderr, badUse, racyRead, steps>>

\* unified_memory: checkCudaErrors(cuDeviceGetAttribute(&hasUVM, ...));
\* if (!hasUVM) { fprintf(stderr, ...); goto exit; }       exit: exit(-1);
AttrUVA ==
    /\ pc = "attrUVA"
    /\ \/ /\ __checkCudaErrors("CUDA_ERROR", "attrUVA")
          /\ UNCHANGED hasUVM
       \/ /\ \E h \in {0, 1} :
                /\ hasUVM' = h
                /\ IF h # 0
                   THEN /\ pc' = Succ("attrUVA")
                        /\ UNCHANGED <<stderr, exitCode>>
                   ELSE /\ stderr' = Append(stderr, [kind |-> "nouva"])
                        /\ Exit(ExitFailure)
          /\ UNCHANGED failed
    /\ UNCHANGED <<envVars, outVars, err, deviceCount, ctxVars, allocVars, hostArrs,
                   devArrs, kernVars, chkVars, badUse, racyRead, steps>>

\* err = cuCtxCreate(&context, 0, device);
\* if (err != CUDA_SUCCESS) { fprintf(stderr, ...); goto exit / exitCtx; }
CuCtxCreate ==
    /\ pc = "cuCtxCreate"
    /\ \E r \in CUresult :
          /\ err' = r
          /\ Record("cuCtxCreate", r)
          /\ IF r = CUDA_SUCCESS
             THEN /\ context' = "created"
                  /\ ctxCreates' = ctxCreates + 1
                  /\ pc' = Succ("cuCtxCreate")
                  /\ UNCHANGED stderr
             ELSE /\ stderr' = Append(stderr, [kind |-> "context"])
                  /\ pc' = "exitCtx"
                  /\ UNCHANGED <<context, ctxCreates>>
    /\ UNCHANGED <<envVars, outVars, deviceCount, hasUVM, ctxDestroys, badDestroy,
                   kernelImage, allocVars, hostArrs, devArrs, kernVars, chkVars,
                   exitCode, badUse, racyRead, steps>>

\* err = cuModuleLoad(&module, module_file);
\* if (err != CUDA_SUCCESS) { fprintf(stderr, ...); goto exit / exitCtx; }
CuModuleLoad ==
    /\ pc = "cuModuleLoad"
    /\ \/ /\ \E img \in KernelImages : kernelImage' = img
          /\ err' = CUDA_SUCCESS
          /\ pc' = Succ("cuModuleLoad")
          /\ UNCHANGED <<stderr, failed>>
       \/ /\ err' = "CUDA_ERROR"
          /\ Record("cuModuleLoad", "CUDA_ERROR")
          /\ stderr' = Append(stderr, [kind |-> "module"])
          /\ pc' = "exitCtx"
          /\ UNCHANGED kernelImage
    /\ UNCHANGED <<envVars, outVars, deviceCount, hasUVM, context, ctxCreates,
                   ctxDestroys, badDestroy, allocVars, hostArrs, devArrs, kernVars,
                   chkVars, exitCode, badUse, racyRead, steps>>

\* err = cuModuleGetFunction(&function, module, kernel_name);
\* if (err != CUDA_SUCCESS) { fprintf(stderr, ...); goto exit / exitCtx; }
CuModuleGetFunction ==
    /\ pc = "cuModuleGetFunction"
    /\ \E r \in CUresult :
          /\ err' = r
          /\ Record("cuModuleGetFunction", r)
          /\ IF r = CUDA_SUCCESS
             THEN /\ pc' = Succ("cuModuleGetFunction")
                  /\ UNCHANGED stderr
             ELSE /\ stderr' = Append(stderr, [kind |-> "function"])
                  /\ pc' = "exitCtx"
    /\ UNCHANGED <<envVars, outVars, deviceCount, hasUVM, ctxVars, allocVars, hostArrs,
                   devArrs, kernVars, chkVars, exitCode, badUse, racyRead, steps>>

\* exit: / exitCtx:   cuCtxDestroy(context); exit(-1);
ExitCtx ==
    /\ pc = "exitCtx"
    /\ \E r \in CUresult : CtxDestroy("exitCtx", r)
    /\ Exit(ExitFailure)
    /\ Begin("destroy")
    /\ UNCHANGED <<envVars, outVars, initLocals, allocVars, hostArrs, devArrs, kernVars,
                   chkVars, stderr, badUse, racyRead>>

\* ----------------------------------------------- setupDeviceMemory (main)
AllocSite == <<"alloc1", "alloc2", "alloc3">>
FreeSite == <<"free1", "free2", "free3">>

\* checkCudaErrors( cuMemAlloc(d_x, sizeof(int) * n) );       (driver_api)
\* checkCudaErrors( cuMemAllocHost((void**)d_x, sizeof(int) * n) ); (unified)
CuMemAlloc(k) ==
    /\ pc = AllocSite[k]
    /\ \E r \in CUresult :
          /\ __checkCudaErrors(r, AllocSite[k])
          /\ alloc' = IF r = CUDA_SUCCESS
                      THEN [alloc EXCEPT ![SetupArgs[k]] = "alloc"]
                      ELSE alloc
    /\ steps' = IF k = 1 THEN Append(steps, "alloc") ELSE steps
    /\ UNCHANGED <<envVars, outVars, initLocals, ctxVars, frees, hostArrs, devArrs,
                   kernVars, chkVars, badUse, racyRead>>

\* driver_api: checkCudaErrors( cuMemcpyHtoD(d_a, a, sizeof(int) * n) );
CuMemcpyHtoD_a ==
    /\ pc = "htod_a"
    /\ Use({"a"})
    /\ \E r \in CUresult :
          /\ __checkCudaErrors(r, "htod_a")
          /\ d_a' = IF r = CUDA_SUCCESS THEN a ELSE d_a
    /\ Begin("populate")
    /\ UNCHANGED <<envVars, outVars, initLocals, ctxVars, allocVars, hostArrs, d_b, d_c,
                   kernVars, chkVars, racyRead>>

\* driver_api: checkCudaErrors( cuMemcpyHtoD(d_b, b, sizeof(int) * n) );
CuMemcpyHtoD_b ==
    /\ pc = "htod_b"
    /\ Use({"b"})
    /\ \E r \in CUresult :
          /\ __checkCudaErrors(r, "htod_b")
          /\ d_b' = IF r = CUDA_SUCCESS THEN b ELSE d_b
    /\ UNCHANGED <<envVars, outVars, initLocals, ctxVars, allocVars, hostArrs, d_a, d_c,
                   kernVars, chkVars, racyRead, steps>>

\* unified_memory: for (i < n) { d_a[i] = n - i; d_b[i] = i * i; }
FillInputs ==
    /\ pc = "fill"
    /\ Use({"a", "b"})
    /\ d_a' = InputA(n)
    /\ d_b' = InputB(n)
    /\ pc' = Succ("fill")
    /\ Begin("populate")
    /\ UNCHANGED <<envVars, outVars, initLocals, ctxVars, allocVars, hostArrs, d_c,
                   kernVars, chkVars, exitCode, stderr, failed, racyRead>>

\* ------------------------------------------------------------- runKernel
\* checkCudaErrors(cuDeviceGetAttribute(&block_size,
\*                 CU_DEVICE_ATTRIBUTE_MAX_BLOCK_DIM_X, device));
AttrBlockDim ==
    /\ pc = "attrBlockDim"
    /\ \/ /\ __checkCudaErrors("CUDA_ERROR", "attrBlockDim")
          /\ UNCHANGED block_size
       \/ /\ __checkCudaErrors(CUDA_SUCCESS, "attrBlockDim")
          /\ \E bs \in 1 .. MaxBlockDimX : block_size' = bs
    /\ Begin("launch")
    /\ UNCHANGED <<envVars, outVars, initLocals, ctxVars, allocVars, hostArrs, devArrs,
                   gridDimX, pending, launches, chkVars, badUse, racyRead>>

\* checkCudaErrors( cuLaunchKernel(function, (n+block_size-1)/block_size, 1, 1,
\*                                 block_size, 1, 1, 0, 0, args, 0) );
\* The launch is asynchronous: it creates the kernel's threads and returns.
\* block_size goes out of scope when runKernel returns.
CuLaunchKernel ==
    /\ pc = "cuLaunchKernel"
    /\ Use(Buffers)
    /\ \E r \in CUresult :
          /\ __checkCudaErrors(r, "cuLaunchKernel")
          /\ IF r = CUDA_SUCCESS
             THEN /\ pending' = LaunchedThreads(GridDim(n, block_size), block_size, n)
                  /\ launches' = launches + 1
             ELSE UNCHANGED <<pending, launches>>
    /\ block_size' = 0
    /\ UNCHANGED <<gridDimX, envVars, outVars, initLocals, ctxVars, allocVars, hostArrs, devArrs,
                   chkVars, racyRead, steps>>

\* One GPU thread of the kernel: if (idx < n) c[idx] = a[idx] + b[idx].
\* Threads run in any order, concurrently with the host, until the process
\* exits.
KernelThread(i) ==
    /\ ~Exited
    /\ i \in pending
    /\ pending' = pending \ {i}
    /\ d_c' = [d_c EXCEPT ![i] = KernelWrite(kernelImage, d_a, d_b, i)]
    /\ UNCHANGED <<envVars, outVars, initLocals, ctxVars, allocVars, hostArrs, d_a, d_b,
                   block_size, gridDimX, launches, chkVars, pc, exitCode, stderr,
                   failed, badUse, racyRead, steps>>

\* unified_memory: cuStreamSynchronize(0);   (not checked)
\* It returns success only once the stream's work is complete; a failing
\* call returns without that guarantee.
CuStreamSynchronize ==
    /\ pc = "cuStreamSynchronize"
    /\ \/ /\ pending = {}
          /\ Record("cuStreamSynchronize", CUDA_SUCCESS)
       \/ Record("cuStreamSynchronize", "CUDA_ERROR")
    /\ pc' = Succ("cuStreamSynchronize")
    /\ UNCHANGED <<envVars, outVars, initLocals, ctxVars, allocVars, hostArrs, devArrs,
                   kernVars, chkVars, exitCode, stderr, badUse, racyRead, steps>>

\* driver_api: checkCudaErrors( cuMemcpyDtoH(c, d_c, sizeof(int) * n) );
\* The copy is ordered after the kernel on the default stream.
CuMemcpyDtoH ==
    /\ pc = "cuMemcpyDtoH"
    /\ Use({"c"})
    /\ \/ /\ pending = {}
          /\ __checkCudaErrors(CUDA_SUCCESS, "cuMemcpyDtoH")
          /\ c' = d_c
       \/ /\ __checkCudaErrors("CUDA_ERROR", "cuMemcpyDtoH")
          /\ UNCHANGED c
    /\ Begin("inspect")
    /\ UNCHANGED <<envVars, outVars, initLocals, ctxVars, allocVars, a, b, devArrs,
                   kernVars, chkVars, racyRead>>

\* ------------------------------------------------------ the result check
\* for (i < n) if (c[i] != a[i] + b[i]) printf("* Error at array position ...");
\* driver_api runs the loop once over its host arrays; unified_memory runs
\* it twice over the pinned buffers and clears `correct` on a mismatch.
\* A read of d_c[i] commutes with the write of every thread j # i, so one
\* pass is a single step: a thread that runs during the pass runs before or
\* after it.
Verify(site) ==
    /\ pc = site
    /\ LET m == IF variant = DRIVER THEN Mismatches(c, a, b)
                                    ELSE Mismatches(d_c, d_a, d_b)
       IN  /\ nReports' = nReports + Cardinality(m)
           /\ correct' = IF variant = UNIFIED THEN (correct /\ m = {}) ELSE correct
           /\ correctFirst' = IF site = "verify1" THEN correct' ELSE correctFirst
    /\ IF variant = UNIFIED
       THEN /\ Use(Buffers)
            /\ racyRead' = (racyRead \/ pending # {})
            /\ steps' = IF site = "verify1" THEN Append(steps, "inspect") ELSE steps
       ELSE UNCHANGED <<badUse, racyRead, steps>>
    /\ pc' = Succ(site)
    /\ UNCHANGED <<envVars, verdict, initLocals, ctxVars, allocVars, hostArrs, devArrs,
                   kernVars, exitCode, stderr, failed>>

\* driver_api:     printf("*** All checks complete.\n");
\* unified_memory: if (correct) printf("*** All checks complete.\n");
\*                 else printf("*** Result incorrect.\n");
Verdict ==
    /\ pc = "verdict"
    /\ verdict' = IF variant = UNIFIED /\ ~correct THEN "incorrect" ELSE "complete"
    /\ pc' = Succ("verdict")
    /\ UNCHANGED <<envVars, nReports, initLocals, ctxVars, allocVars, hostArrs, devArrs,
                   kernVars, chkVars, exitCode, stderr, failed, badUse, racyRead, steps>>

\* --------------------------------------- releaseDeviceMemory, finalizeCUDA
\* checkCudaErrors( cuMemFree(d_x) );  /  checkCudaErrors( cuMemFreeHost(d_x) );
\* A freed buffer no longer has contents.  A kernel still running when one
\* of its buffers is freed accesses freed memory; nothing the program does
\* afterwards reads what it writes, so its threads are not followed further.
CuMemFree(k) ==
    /\ pc = FreeSite[k]
    /\ Use({ReleaseArgs[k]})
    /\ \E r \in CUresult :
          /\ __checkCudaErrors(r, FreeSite[k])
          /\ IF r = CUDA_SUCCESS
             THEN /\ alloc' = [alloc EXCEPT ![ReleaseArgs[k]] = "freed"]
                  /\ frees' = [frees EXCEPT ![ReleaseArgs[k]] = @ + 1]
                  /\ d_a' = IF ReleaseArgs[k] = "a" THEN Unwritten(fill) ELSE d_a
                  /\ d_b' = IF ReleaseArgs[k] = "b" THEN Unwritten(fill) ELSE d_b
                  /\ d_c' = IF ReleaseArgs[k] = "c" THEN Unwritten(fill) ELSE d_c
                  /\ pending' = {}
             ELSE UNCHANGED <<alloc, frees, devArrs, pending>>
    /\ steps' = IF k = 1 THEN Append(steps, "release") ELSE steps
    /\ UNCHANGED <<envVars, outVars, initLocals, ctxVars, hostArrs, block_size,
                   gridDimX, launches, chkVars, racyRead>>

\* finalizeCUDA: cuCtxDestroy(context);  (not checked)   then main: return 0;
FinalizeCUDA ==
    /\ pc = "finalizeCUDA"
    /\ \E r \in CUresult : CtxDestroy("finalizeCUDA", r)
    /\ Exit(MainReturn)
    /\ Begin("destroy")
    /\ UNCHANGED <<envVars, outVars, initLocals, allocVars, hostArrs, devArrs, kernVars,
                   chkVars, stderr, badUse, racyRead>>

\* ------------------------------------------------------------------ Next
Next ==
    \/ MainEntry
    \/ CuInit
    \/ CuDeviceGetCount
    \/ \E site \in {"cuDeviceGet", "attrMajor", "attrMinor", "cuDeviceTotalMem"} :
          CheckedQuery(site)
    \/ CuDeviceGetName
    \/ AttrUVA
    \/ CuCtxCreate
    \/ CuModuleLoad
    \/ CuModuleGetFunction
    \/ ExitCtx
    \/ \E k \in 1 .. 3 : CuMemAlloc(k)
    \/ CuMemcpyHtoD_a
    \/ CuMemcpyHtoD_b
    \/ FillInputs
    \/ AttrBlockDim
    \/ CuLaunchKernel
    \/ \E i \in Index : KernelThread(i)
    \/ CuStreamSynchronize
    \/ CuMemcpyDtoH
    \/ \E site \in {"verify1", "verify2"} : Verify(site)
    \/ Verdict
    \/ \E k \in 1 .. 3 : CuMemFree(k)
    \/ FinalizeCUDA

Spec == Init /\ [][Next]_vars

FairSpec == Spec /\ WF_vars(Next)

\* ------------------------------------------------- the grid formula alone
\* The launch's grid expression applied to every n and block_size of a
\* bounded range.
InitGrid ==
    /\ variant = DRIVER
    /\ pc = "grid"
    /\ n \in 1 .. MaxGridN
    /\ block_size \in 1 .. MaxGridBlock
    /\ InitCommon

GridExpr ==
    /\ pc = "grid"
    /\ gridDimX' = GridDim(n, block_size)
    /\ pc' = "gridDone"
    /\ UNCHANGED <<envVars, outVars, initLocals, ctxVars, allocVars, hostArrs, devArrs,
                   block_size, pending, launches, chkVars, exitCode, stderr, failed,
                   badUse, racyRead, steps>>

NextGrid == GridExpr

GridSpec == InitGrid /\ [][NextGrid]_vars

\* ================================================================ claims
\* What the host inspects at the result check, and the inputs beside it.
Output == IF variant = DRIVER THEN c ELSE d_c
InputsA == IF variant = DRIVER THEN a ELSE d_a
InputsB == IF variant = DRIVER THEN b ELSE d_b
Wrong(out, x, y) == {i \in Index : out[i] # x[i] + y[i]}
LastErr == stderr[Len(stderr)]
Rank(s) == CHOOSE k \in 1 .. Len(StepOrder) : StepOrder[k] = s

\* C1 (as stated): whenever any driver call returned a non-success code, the
\* program has printed the code with file and line to stderr and has exited
\* with a non-zero status at once, before any later step.
C1_Original ==
    failed # {} =>
        /\ Exited
        /\ exitCode # 0
        /\ stderr # <<>>
        /\ LastErr.kind = "api"
        /\ LastErr.site \in failed

\* C2 (as stated): if the result check found an index whose output differs
\* from a[i] + b[i], the program exits with a non-zero status and has written
\* a message to stderr.
C2_Original ==
    (Exited /\ nReports > 0) => (exitCode # 0 /\ stderr # <<>>)

\* C2 (amended): a mismatch found by the result check is reported on stdout
\* only, one line per mismatching index and pass, and does not end the run:
\* driver_api still prints "All checks complete", unified_memory prints
\* "Result incorrect", nothing is written to stderr for it, and the program
\* exits with status 0 unless a later free fails.
C2_Amended ==
    /\ (variant = DRIVER /\ pc = "verdict") =>
            nReports = Cardinality(Wrong(c, a, b))
    /\ (variant = UNIFIED /\ pc = "verdict") =>
            /\ nReports >= Cardinality(Wrong(d_c, d_a, d_b))
            /\ (nReports > 0) = ~correct
    /\ (nReports > 0 /\ verdict # "none") =>
            verdict = (IF variant = UNIFIED THEN "incorrect" ELSE "complete")
    /\ (nReports > 0 /\ Exited) =>
            \/ exitCode = 0 /\ stderr = <<>>
            \/ /\ exitCode = ExitFailure
               /\ LastErr.kind = "api"
               /\ LastErr.site \in {"free1", "free2", "free3"}

C2_Witness ==
    /\ Exited /\ exitCode = 0 /\ stderr = <<>>
    /\ variant = DRIVER /\ nReports > 0 /\ failed = {}

\* C3: when every driver call succeeded and the loaded kernel is Sum, then at
\* the result check output[i] = a[i] + b[i] for every i in 0..N-1, with
\* a[i] = N - i and b[i] = i*i.
C3_OutputIsSum ==
    (pc \in {"verify1", "verify2"} /\ failed = {} /\ kernelImage = "Sum") =>
        \A i \in Index :
            /\ InputsA[i] = N - i
            /\ InputsB[i] = i * i
            /\ Output[i] = InputsA[i] + InputsB[i]

C3_Witness ==
    /\ pc = "verify1" /\ failed = {} /\ kernelImage = "Sum" /\ launches = 1
    /\ variant = UNIFIED
    /\ \A i \in Index : d_c[i] = (N - i) + i * i

\* C4 (as stated): in unified_memory the host never reads d_c for the result
\* check while the launched kernel has not completed.
C4_Original == ~racyRead

\* C5 (as stated): the context is created at most once, cuCtxDestroy is called
\* at most once and only on a context cuCtxCreate created, and a created
\* context is destroyed before the process exits, on every path.
C5_Original ==
    /\ ctxCreates <= 1
    /\ ctxDestroys <= 1
    /\ ~badDestroy
    /\ Exited => context # "created"

\* C6 (as stated): on every path to exit each buffer that was allocated has
\* been freed exactly once, and no buffer is used before it is allocated.
C6_Original ==
    /\ ~badUse
    /\ Exited => \A x \in Buffers :
                     alloc[x] = "unalloc" \/ (alloc[x] = "freed" /\ frees[x] = 1)

\* C6 (amended): no buffer is used before it is allocated and none is freed
\* twice; when main returns normally each of the three buffers has been
\* allocated and freed exactly once; a fail-fast exit frees nothing more, so
\* the buffers allocated and not yet freed at that point stay unfreed.
C6_Amended ==
    /\ ~badUse
    /\ \A x \in Buffers :
          /\ frees[x] <= 1
          /\ (frees[x] = 1) = (alloc[x] = "freed")
    /\ (Exited /\ exitCode = 0) => \A x \in Buffers : frees[x] = 1

C6_Witness ==
    /\ Exited /\ exitCode = 0 /\ ~badUse
    /\ \A x \in Buffers : alloc[x] = "freed" /\ frees[x] = 1

\* C7: when a device is present (with unified addressing, for the unified
\* variant), every driver call succeeds and every output element matches,
\* the program runs every step, terminates, and exits with status 0.
C7_ExitsZero ==
    /\ [](( /\ Exited
            /\ failed = {}
            /\ deviceCount > 0
            /\ variant = UNIFIED => hasUVM # 0
            /\ nReports = 0 )
          => ( /\ exitCode = 0
               /\ steps = StepOrder
               /\ launches = 1
               /\ verdict = "complete"
               /\ context = "destroyed" ))
    /\ <>Exited

C7_Witness ==
    /\ Exited /\ exitCode = 0 /\ failed = {} /\ nReports = 0
    /\ variant = UNIFIED /\ hasUVM # 0 /\ steps = StepOrder

\* C8: the steps init, alloc, populate, launch, inspect, release, destroy are
\* taken in that order in every run, each at most once; the kernel is
\* launched at most once, and exactly once (after all earlier steps and
\* before all later ones) when main returns normally.
C8_StepOrder ==
    /\ \A j \in 1 .. Len(steps) : \A k \in 1 .. Len(steps) :
            j < k => Rank(steps[j]) < Rank(steps[k])
    /\ launches <= 1
    /\ launches = 1 => \E j \in 1 .. Len(steps) :
            /\ steps[j] = "launch"
            /\ \A k \in 1 .. (j - 1) : steps[k] = StepOrder[k]
            /\ j = 4
    /\ (Exited /\ exitCode = 0) => (steps = StepOrder /\ launches = 1)

C8_Witness ==
    /\ Exited /\ exitCode = 0 /\ steps = StepOrder /\ launches = 1
    /\ variant = DRIVER

\* C9: the grid g = (n + block_size - 1) / block_size satisfies
\* g * block_size >= n and (g - 1) * block_size < n for every n >= 1 and
\* block_size >= 1, so every index 0..n-1 has a launched thread and no whole
\* block is superfluous; for n = 10 and block_size >= 10, g = 1.
C9_GridCovers ==
    pc = "gridDone" =>
        /\ gridDimX * block_size >= n
        /\ (gridDimX - 1) * block_size < n
        /\ \A i \in 0 .. (n - 1) : i < gridDimX * block_size
        /\ (n = N /\ block_size >= N) => gridDimX = 1

C9_Witness ==
    pc = "gridDone" /\ n = N /\ block_size > N /\ gridDimX = 1

\* C10 (as stated): in unified_memory, after both verification passes
\* `correct` equals its value after the first pass, `correct` is true iff no
\* index mismatches, and every mismatching index was reported exactly twice.
C10_Original ==
    (variant = UNIFIED /\ pc = "verdict") =>
        /\ correct = correctFirst
        /\ correct = (Wrong(d_c, d_a, d_b) = {})
        /\ nReports = 2 * Cardinality(Wrong(d_c, d_a, d_b))

====
